---- MODULE Spec2Model ----
(***************************************************************************)
(* Model of legged_lab/scripts/sim2sim.py: the MujocoRunner control loop   *)
(* (run, get_obs, position_control, calculate_gait_para) and the keyboard  *)
(* listener (on_press, adjust_command_vel) that runs in its own thread.    *)
(*                                                                         *)
(* Numbers.  Every real quantity of the observation/action pipeline is a   *)
(* fixed-point integer: the real x is the integer x * Scale.  Times are    *)
(* integers in milliseconds.  Gait phases are integers in units of         *)
(* 1/PhaseDen of a turn; PhaseDen is chosen so that both task presets      *)
(* (cycle 0.85 s and 0.5 s, macro step 0.02 s, offsets 0.38/0.88/0.6/0.1)  *)
(* are represented exactly.  Vectors are 1-based sequences; the two joint  *)
(* index tables keep the source's 0-based entries.                         *)
(***************************************************************************)
EXTENDS Integers, Sequences, FiniteSets, TLC

\* ------------------------------------------------------------------------
\* Representation
\* ------------------------------------------------------------------------
Scale == 100
PhaseDen == 1700

\* ------------------------------------------------------------------------
\* Bounds of the model (not program constants)
\* ------------------------------------------------------------------------
\* longest configured duration, in ms, of the loop-only specification
MaxDuration == 230
\* longest configured duration, in ms, when the keyboard thread interleaves
MaxShortDuration == 25
\* key events delivered to the listener in the keyboard-only specification
MaxPresses == 6
\* key events delivered while the control loop runs (all keys)
MaxLoopPresses == 2
\* '8' key events delivered while the control loop runs (forward key only)
MaxForwardPresses == 6
\* number of distinct sensor frames the physics stub cycles through
NFrames == 3
\* how much longer than asked time.sleep may suspend, in units of dt
MaxOversleep == 1
\* largest increment (fixed point) of a direct adjust_command_vel call
MaxIncrement == 250
\* longest configured duration, in ms, when wall-clock time passes freely
MaxPaceDuration == 70
\* wall-clock time, in ms, up to which the passing of time is followed
MaxWall == 100

\* ------------------------------------------------------------------------
\* SimToSimCfg
\* ------------------------------------------------------------------------
num_action == 20
num_obs_per_step == 78
actor_obs_history_length == 10
\* cfg.sim.dt = 0.005 s, in ms
dt == 5
decimation == 4
\* 100.0
clip_observations == 100 * Scale
\* 100.0
clip_actions == 100 * Scale
\* 0.25
action_scale == 25

Tasks == {"walk", "run"}

\* gait_air_ratio_l / gait_air_ratio_r of the task preset (fixed point)
GaitAirRatio(task) ==
    IF task = "walk" THEN <<38, 38>> ELSE <<60, 60>>

\* gait_phase_offset_l / gait_phase_offset_r of the task preset (fixed point)
GaitPhaseOffset(task) ==
    IF task = "walk" THEN <<38, 88>> ELSE <<60, 10>>

\* gait_cycle of the task preset, in ms
GaitCycle(task) ==
    IF task = "walk" THEN 850 ELSE 500

\* ------------------------------------------------------------------------
\* Numeric helpers
\* ------------------------------------------------------------------------
Min(a, b) == IF a < b THEN a ELSE b

Max(a, b) == IF a > b THEN a ELSE b

\* np.clip on a scalar
Clip(x, lo, hi) == Max(lo, Min(x, hi))

\* np.clip on a vector
ClipVec(v, lo, hi) == [i \in 1..Len(v) |-> Clip(v[i], lo, hi)]

Zeros(n) == [i \in 1..n |-> 0]

\* fixed-point product of two fixed-point numbers
FMul(a, b) == (a * b) \div Scale

\* a fixed-point fraction of a turn as a phase in 1/PhaseDen turns
ToPhase(x) == (x * PhaseDen) \div Scale

\* np.sin(2*pi*p) for a phase p in 0..PhaseDen-1 (Bhaskara's rational
\* approximation of the sine, evaluated in integers; result in fixed point)
SinTurn(p) ==
    LET half == PhaseDen \div 2
        B(x) == (16 * x * (half - x) * Scale) \div (5 * half * half - 4 * x * (half - x))
    IN  IF p < half THEN B(p) ELSE 0 - B(p - half)

\* np.cos(2*pi*p) = sin(2*pi*(p + 1/4))
CosTurn(p) == SinTurn((p + PhaseDen \div 4) % PhaseDen)

\* ------------------------------------------------------------------------
\* init_variables: constant tables
\* ------------------------------------------------------------------------
default_dof_pos ==
    << 0, -50, 0, 100, -50, 0, 0, -50, 0, 100, -50, 0,
       0, 10, 0, -30, 0, -10, 0, -30 >>

\* the table with the two shoulder_pitch entries exchanged
mujoco_to_isaac_idx_swapped ==
    << 0, 6, 16, 12, 1, 7, 13, 17, 2, 8, 14, 18, 3, 9, 15, 19, 4, 10, 5, 11 >>

mujoco_to_isaac_idx_init ==
    << 0, 6, 12, 16, 1, 7, 13, 17, 2, 8, 14, 18, 3, 9, 15, 19, 4, 10, 5, 11 >>

isaac_to_mujoco_idx_init ==
    << 0, 4, 8, 12, 16, 18, 1, 5, 9, 13, 17, 19, 2, 6, 10, 14, 3, 7, 11, 15 >>

\* v[idx] of numpy for a 0-based index list idx (gather)
Gather(v, idx) == [i \in 1..Len(idx) |-> v[idx[i] + 1]]

\* ------------------------------------------------------------------------
\* External collaborators (stubs)
\* ------------------------------------------------------------------------
Frames == 0..(NFrames - 1)

\* data.sensor("linear-velocity").data of sensor frame f
SensorLinVel(f) == << 10 * f, 0 - 5 * f, f >>

\* data.sensor("angular-velocity").data of sensor frame f
SensorAngVel(f) == << 0 - 3 * f, 7 * f, 2 * f + 1 >>

\* the orientation of the body in sensor frame f (unit quaternions), by
\* component
SensorQuat(f) ==
    IF f % 3 = 0 THEN [w |-> 100, x |-> 0, y |-> 0, z |-> 0]
    ELSE IF f % 3 = 1 THEN [w |-> 80, x |-> 60, y |-> 0, z |-> 0]
    ELSE [w |-> 0, x |-> 0, y |-> 60, z |-> 80]

\* the component orders in which an engine may deliver a quaternion:
\* scalar-first (MuJoCo's framequat sensor) and scalar-last
QuatOrders == {"wxyz", "xyzw"}

\* data.sensor("orientation").data of sensor frame f: the four numbers in
\* the order in which the engine delivers them
SensorOrientation(f, order) ==
    LET q == SensorQuat(f)
    IN  IF order = "wxyz" THEN << q.w, q.x, q.y, q.z >>
        ELSE << q.x, q.y, q.z, q.w >>

\* data.sensordata[0:40] of sensor frame f: 20 joint positions followed by
\* 20 joint velocities, engine-native order; some velocities exceed
\* clip_observations
SensorData(f) ==
    [i \in 1..(2 * num_action) |->
        IF i <= num_action
        THEN default_dof_pos[i] + f * (i - 10)
        ELSE LET j == i - num_action
             IN  IF f % 3 = 1 /\ j = 3 THEN 150 * Scale
                 ELSE IF f % 3 = 2 /\ j = 5 THEN 0 - 120 * Scale
                 ELSE 3 * f * j]

\* mujoco.mj_step's effect on the sensors: the stub world steps through its
\* frames
NextFrame(f) == (f + 1) % NFrames

PolicyKinds == {"zeros", "big", "feedback"}

\* self.policy(obs_history): a pure function of the history returning more
\* than num_action outputs
Policy(kind, hist) ==
    [i \in 1..(num_action + 2) |->
        IF kind = "zeros" THEN 0
        ELSE IF kind = "big"
             THEN (IF i % 2 = 1 THEN 150 * Scale ELSE 0 - 150 * Scale)
        ELSE 4 * (hist[Len(hist) - num_obs_per_step + 12 + i]
                  + hist[Len(hist) - num_obs_per_step + 10])]

\* ------------------------------------------------------------------------
\* Pure functions of MujocoRunner
\* ------------------------------------------------------------------------
\* quat_rotate_inverse(q, v): q fixed point, v a vector of plain integers
quat_rotate_inverse(q, v) ==
    LET q_w == q[4]
        q_vec == SubSeq(q, 1, 3)
        cross == << q_vec[2] * v[3] - q_vec[3] * v[2],
                    q_vec[3] * v[1] - q_vec[1] * v[3],
                    q_vec[1] * v[2] - q_vec[2] * v[1] >>
        dot == q_vec[1] * v[1] + q_vec[2] * v[2] + q_vec[3] * v[3]
        a == [i \in 1..3 |-> v[i] * (2 * q_w * q_w - Scale * Scale)]
        b == [i \in 1..3 |-> cross[i] * q_w * 2]
        c == [i \in 1..3 |-> q_vec[i] * dot * 2]
    IN  [i \in 1..3 |-> (a[i] - b[i] + c[i]) \div Scale]

\* position_control adding the default pose before the reordering
position_control_offset_first(act, i2m) ==
    LET shifted == [i \in 1..Len(act) |->
                       FMul(act[i], action_scale) + default_dof_pos[i]]
    IN  Gather(shifted, i2m)

\* position_control() for a given action vector and index table
position_control(act, i2m) ==
    LET actions_scaled == [i \in 1..Len(act) |-> FMul(act[i], action_scale)]
        g == Gather(actions_scaled, i2m)
    IN  [i \in 1..Len(g) |-> g[i] + default_dof_pos[i]]

\* calculate_gait_para without the "% 1.0"
GaitPhaseNoWrap(steps, task, side) ==
    LET t == (steps * (decimation * dt) * PhaseDen) \div GaitCycle(task)
    IN  t + ToPhase(GaitPhaseOffset(task)[side])

\* calculate_gait_para using the physics step cfg.sim.dt in place of self.dt
GaitPhaseSubstepDt(steps, task, side) ==
    LET t == (steps * dt * PhaseDen) \div GaitCycle(task)
    IN  (t + ToPhase(GaitPhaseOffset(task)[side])) % PhaseDen

\* the phase written by calculate_gait_para for one side:
\* (episode_length_buf * self.dt / gait_cycle + phase_offset) % 1.0
GaitPhaseOf(steps, task, side) ==
    LET t == (steps * (decimation * dt) * PhaseDen) \div GaitCycle(task)
    IN  (t + ToPhase(GaitPhaseOffset(task)[side])) % PhaseDen

\* np.roll with the sign of the shift dropped (shift=+n): the last n
\* elements move to the front
RollRight(h, n) == SubSeq(h, Len(h) - n + 1, Len(h)) \o SubSeq(h, 1, Len(h) - n)

\* np.roll(h, shift=-n) for 0 <= n <= Len(h): the first n elements move to
\* the end
Roll(h, n) == SubSeq(h, n + 1, Len(h)) \o SubSeq(h, 1, n)

\* the index list [[1, 2, 3, 0]] of line 162 left out
ReorderQuatIdentity(o) == o

\* data[[1, 2, 3, 0]] of line 162
ReorderQuat(o) == << o[2], o[3], o[4], o[1] >>

\* the previous-action segment filled with the scaled action
PrevActionScaled(act) == [i \in 1..Len(act) |-> FMul(act[i], action_scale)]

\* the previous-action segment of line 174
PrevAction(act) == ClipVec(act, 0 - clip_actions, clip_actions)

\* the observation vector assembled by get_obs (lines 149-179); `order` is
\* the order in which the engine delivers the orientation
AssembleObs(f, order, cmd, act, phase, task, m2i) ==
    LET sd == SensorData(f)
        dof_pos == SubSeq(sd, 1, 20)
        dof_vel == SubSeq(sd, 21, 40)
        o == SensorOrientation(f, order)
        grav == quat_rotate_inverse(ReorderQuat(o), << 0, 0, -1 >>)
        delta == [i \in 1..20 |-> dof_pos[i] - default_dof_pos[i]]
    IN  SensorLinVel(f) \o SensorAngVel(f) \o grav \o cmd
        \o Gather(delta, m2i) \o Gather(dof_vel, m2i)
        \o PrevAction(act)
        \o << SinTurn(phase[1]), SinTurn(phase[2]) >>
        \o << CosTurn(phase[1]), CosTurn(phase[2]) >>
        \o GaitAirRatio(task)

\* the history update that keeps the unclamped buffer (line 219 ignoring
\* the value get_obs returns)
UpdateHistoryUnclipped(hist, o) ==
    SubSeq(Roll(hist, num_obs_per_step), 1, Len(hist) - num_obs_per_step) \o o

\* the history update of get_obs (lines 182-185) together with the
\* assignment of its result in run (line 219): roll, overwrite the last
\* block with the new observation, clip
UpdateHistory(hist, o) ==
    ClipVec(SubSeq(Roll(hist, num_obs_per_step), 1,
                   Len(hist) - num_obs_per_step) \o o,
            0 - clip_observations, clip_observations)

\* ------------------------------------------------------------------------
\* Keyboard dispatch table of on_press
\* ------------------------------------------------------------------------
RecognizedKeys == {"8", "2", "4", "6", "7", "9"}

\* key events of the model: the six recognized characters, a character
\* that is not recognized, and a special key that has no char attribute
AllKeys == RecognizedKeys \cup {"5", "shift"}

\* the dispatch with the forward and lateral axes exchanged
KeyIdxForwardLateralSwapped(k) ==
    IF k \in {"8", "2"} THEN 1 ELSE IF k \in {"4", "6"} THEN 0 ELSE 2

\* the idx argument on_press passes to adjust_command_vel
KeyIdx(k) ==
    IF k \in {"8", "2"} THEN 0 ELSE IF k \in {"4", "6"} THEN 1 ELSE 2

\* the increments as the source's comments describe them (7: yaw += 0.2,
\* 9: yaw -= 0.2)
KeyIncrementAsCommented(k) ==
    IF k \in {"8", "6", "7"} THEN 20 ELSE 0 - 20

\* the increment argument on_press passes to adjust_command_vel
KeyIncrement(k) ==
    IF k \in {"8", "6", "9"} THEN 20 ELSE 0 - 20

\* ------------------------------------------------------------------------
\* State
\* ------------------------------------------------------------------------
VARIABLES
    task,                 \* --task preset (selects the gait configuration)
    sim_duration,         \* cfg.sim.sim_duration, ms
    policy,               \* self.policy (which stub network is loaded)
    pc,                   \* position of the main thread in run()
    time,                 \* self.data.time, ms
    sim_time_start,       \* local of run()
    wall,                 \* time.time() - real_time_start, ms
    sensor,               \* the sensor frame self.data currently holds
    ctrl,                 \* self.data.ctrl
    viewer,               \* self.viewer: "open" or "closed"
    listener,             \* self.listener: "none", "running", "stopped"
    action,               \* self.action
    episode_length_buf,   \* self.episode_length_buf
    gait_phase,           \* self.gait_phase
    mujoco_to_isaac_idx,  \* self.mujoco_to_isaac_idx
    isaac_to_mujoco_idx,  \* self.isaac_to_mujoco_idx
    command_vel,          \* self.command_vel (shared with the listener)
    obs_history,          \* self.obs_history
    obs,                  \* the vector get_obs assembled last
    sim_update,           \* loop variable of the sub-step loop
    range_next,           \* next value of range(decimation)
    infer_count,          \* number of policy invocations so far
    kpc,                  \* position of the listener thread in on_press
    key,                  \* argument of the running / last on_press
    kidx,                 \* idx argument of adjust_command_vel (0 outside a call)
    kinc,                 \* increment argument of adjust_command_vel (0 outside a call)
    n_events,             \* number of key events delivered so far
    cv_before,            \* command_vel when the last on_press was entered
    kerr,                 \* exception that left on_press ("none" if none)
    quat_order,           \* order in which the engine delivers quaternions
    quat,                 \* the quaternion get_obs last gave quat_rotate_inverse
    obs_log,              \* the clamped observations of all macro-steps so far
    gait_calls            \* number of calculate_gait_para calls so far

cfgVars == << task, sim_duration, policy >>

tableVars == << mujoco_to_isaac_idx, isaac_to_mujoco_idx >>

loopVars == << pc, time, sim_time_start, wall, sensor, ctrl, viewer, action,
               episode_length_buf, gait_phase, obs_history, obs, sim_update,
               range_next, infer_count >>

keyVars == << kpc, key, kidx, kinc, n_events, cv_before >>

\* the engine's convention and the records kept of the run
auxVars == << kerr, quat_order, quat, obs_log, gait_calls >>

vars == << cfgVars, tableVars, loopVars, listener, command_vel, keyVars,
           auxVars >>

\* ------------------------------------------------------------------------
\* Construction: __init__ / init_variables
\* ------------------------------------------------------------------------
\* durations, in ms, from which a configuration picks sim_duration
Durations(max) == {max - 2 * dt, max}

InitBase(tasks, durations, policies, frames, orders) ==
    /\ quat_order \in orders
    /\ kerr = "none"
    /\ quat = Zeros(4)
    /\ obs_log = << >>
    /\ gait_calls = 0
    /\ task \in tasks
    /\ sim_duration \in durations
    /\ policy \in policies
    /\ sensor \in frames
    /\ pc = "start"
    /\ time = 0
    /\ sim_time_start = 0
    /\ wall = 0
    /\ ctrl = Zeros(num_action)
    /\ viewer = "open"
    /\ listener = "none"
    /\ action = Zeros(num_action)
    /\ episode_length_buf = 0
    /\ gait_phase = Zeros(2)
    /\ mujoco_to_isaac_idx = mujoco_to_isaac_idx_init
    /\ isaac_to_mujoco_idx = isaac_to_mujoco_idx_init
    /\ command_vel = Zeros(3)
    /\ obs_history = Zeros(num_obs_per_step * actor_obs_history_length)
    /\ obs = Zeros(num_obs_per_step)
    /\ sim_update = 0
    /\ range_next = 0
    /\ infer_count = 0
    /\ kpc = "idle"
    /\ key = "none"
    /\ kidx = 0
    /\ kinc = 0
    /\ n_events = 0
    /\ cv_before = Zeros(3)

\* construction against MuJoCo, which delivers quaternions scalar-first
InitWith(tasks, durations, policies, frames) ==
    InitBase(tasks, durations, policies, frames, {"wxyz"})

\* ------------------------------------------------------------------------
\* run(): the main thread
\* ------------------------------------------------------------------------
\* lines 203-208
RunStart ==
    /\ pc = "start"
    /\ listener' = "running"
    /\ wall' = 0
    /\ sim_time_start' = time
    /\ pc' = "loop"
    /\ UNCHANGED << auxVars, cfgVars, tableVars, time, sensor, ctrl, viewer, action,
                    episode_length_buf, gait_phase, obs_history, obs,
                    sim_update, range_next, infer_count, command_vel, keyVars >>

\* line 210 without the exit: the loop is never left (the model follows it
\* for one macro-step past the configured duration)
LoopCheckForever ==
    /\ pc = "loop"
    /\ time < sim_duration + decimation * dt
    /\ pc' = "pace"
    /\ UNCHANGED << auxVars, cfgVars, tableVars, time, sim_time_start, wall,
                    sensor, ctrl, viewer, action, episode_length_buf,
                    gait_phase, obs_history, obs, sim_update, range_next,
                    infer_count, listener, command_vel, keyVars >>

\* line 210 leaving the loop when the next macro-step would pass the
\* configured duration
LoopCheckEarlyExit ==
    /\ pc = "loop"
    /\ pc' = IF time + decimation * dt < sim_duration THEN "pace" ELSE "stop"
    /\ UNCHANGED << auxVars, cfgVars, tableVars, time, sim_time_start, wall,
                    sensor, ctrl, viewer, action, episode_length_buf,
                    gait_phase, obs_history, obs, sim_update, range_next,
                    infer_count, listener, command_vel, keyVars >>

\* line 210
LoopCheck ==
    /\ pc = "loop"
    /\ pc' = IF time < sim_duration THEN "pace" ELSE "stop"
    /\ UNCHANGED << auxVars, cfgVars, tableVars, time, sim_time_start, wall, sensor,
                    ctrl, viewer, action, episode_length_buf, gait_phase,
                    obs_history, obs, sim_update, range_next, infer_count,
                    listener, command_vel, keyVars >>

\* lines 212-217 with the comparison of line 216 reversed
PaceReversed ==
    /\ pc = "pace"
    /\ LET real_time_elapsed == wall
           sim_time_elapsed == time - sim_time_start
       IN  IF sim_time_elapsed < real_time_elapsed
           THEN \E over \in 0..MaxOversleep :
                    wall' = wall + (real_time_elapsed - sim_time_elapsed) + over * dt
           ELSE wall' = wall
    /\ pc' = "get_obs"
    /\ UNCHANGED << auxVars, cfgVars, tableVars, time, sim_time_start, sensor,
                    ctrl, viewer, action, episode_length_buf, gait_phase,
                    obs_history, obs, sim_update, range_next, infer_count,
                    listener, command_vel, keyVars >>

\* lines 212-217
Pace ==
    /\ pc = "pace"
    /\ LET real_time_elapsed == wall
           sim_time_elapsed == time - sim_time_start
       IN  IF sim_time_elapsed > real_time_elapsed
           THEN \E over \in 0..MaxOversleep :
                    wall' = wall + (sim_time_elapsed - real_time_elapsed) + over * dt
           ELSE wall' = wall
    /\ pc' = "get_obs"
    /\ UNCHANGED << auxVars, cfgVars, tableVars, time, sim_time_start, sensor, ctrl,
                    viewer, action, episode_length_buf, gait_phase,
                    obs_history, obs, sim_update, range_next, infer_count,
                    listener, command_vel, keyVars >>

\* get_obs consuming the command it has read (resetting it to zero)
GetObsConsumesCommand ==
    /\ pc = "get_obs"
    /\ obs' = AssembleObs(sensor, quat_order, command_vel, action, gait_phase,
                          task, mujoco_to_isaac_idx)
    /\ quat' = ReorderQuat(SensorOrientation(sensor, quat_order))
    /\ obs_history' = UpdateHistory(obs_history, obs')
    /\ obs_log' = Append(obs_log,
                         ClipVec(obs', 0 - clip_observations, clip_observations))
    /\ command_vel' = Zeros(3)
    /\ pc' = "infer"
    /\ UNCHANGED << kerr, quat_order, gait_calls, cfgVars, tableVars, time, sim_time_start, wall, sensor,
                    ctrl, viewer, action, episode_length_buf, gait_phase,
                    sim_update, range_next, infer_count, listener, keyVars >>

\* line 219 with get_obs, lines 142-185
GetObs ==
    /\ pc = "get_obs"
    /\ obs' = AssembleObs(sensor, quat_order, command_vel, action, gait_phase,
                          task, mujoco_to_isaac_idx)
    /\ quat' = ReorderQuat(SensorOrientation(sensor, quat_order))
    /\ obs_history' = UpdateHistory(obs_history, obs')
    /\ obs_log' = Append(obs_log,
                         ClipVec(obs', 0 - clip_observations, clip_observations))
    /\ pc' = "infer"
    /\ UNCHANGED << kerr, quat_order, gait_calls, cfgVars, tableVars, time, sim_time_start, wall, sensor,
                    ctrl, viewer, action, episode_length_buf, gait_phase,
                    sim_update, range_next, infer_count, listener,
                    command_vel, keyVars >>

\* line 220
Infer ==
    /\ pc = "infer"
    /\ action' = SubSeq(Policy(policy, obs_history), 1, 20)
    /\ infer_count' = infer_count + 1
    /\ pc' = "clip"
    /\ UNCHANGED << auxVars, cfgVars, tableVars, time, sim_time_start, wall, sensor,
                    ctrl, viewer, episode_length_buf, gait_phase, obs_history,
                    obs, sim_update, range_next, listener, command_vel,
                    keyVars >>

\* line 221, and the creation of the range iterator of line 223
ClipAction ==
    /\ pc = "clip"
    /\ action' = ClipVec(action, 0 - clip_actions, clip_actions)
    /\ range_next' = 0
    /\ pc' = "for"
    /\ UNCHANGED << auxVars, cfgVars, tableVars, time, sim_time_start, wall, sensor,
                    ctrl, viewer, episode_length_buf, gait_phase, obs_history,
                    obs, sim_update, infer_count, listener, command_vel,
                    keyVars >>

\* range(decimation + 1): one sub-step too many
RangeHasNextInclusive(n) == n <= decimation

\* whether range(decimation) yields another value
RangeHasNext(n) == n < decimation

\* line 223: one step of the for loop
ForNext ==
    /\ pc = "for"
    /\ IF RangeHasNext(range_next)
       THEN /\ sim_update' = range_next
            /\ range_next' = range_next + 1
            /\ pc' = "ctrl"
       ELSE /\ pc' = "render"
            /\ UNCHANGED << sim_update, range_next >>
    /\ UNCHANGED << auxVars, cfgVars, tableVars, time, sim_time_start, wall, sensor,
                    ctrl, viewer, action, episode_length_buf, gait_phase,
                    obs_history, obs, infer_count, listener, command_vel,
                    keyVars >>

\* line 224
SetCtrl ==
    /\ pc = "ctrl"
    /\ ctrl' = position_control(action, isaac_to_mujoco_idx)
    /\ pc' = "step"
    /\ UNCHANGED << auxVars, cfgVars, tableVars, time, sim_time_start, wall, sensor,
                    viewer, action, episode_length_buf, gait_phase,
                    obs_history, obs, sim_update, range_next, infer_count,
                    listener, command_vel, keyVars >>

\* line 225
MjStep ==
    /\ pc = "step"
    /\ time' = time + dt
    /\ sensor' = NextFrame(sensor)
    /\ pc' = "for"
    /\ UNCHANGED << auxVars, cfgVars, tableVars, sim_time_start, wall, ctrl, viewer,
                    action, episode_length_buf, gait_phase, obs_history, obs,
                    sim_update, range_next, infer_count, listener,
                    command_vel, keyVars >>

\* line 227
Render ==
    /\ pc = "render"
    /\ viewer = "open"
    /\ pc' = "incr"
    /\ UNCHANGED << auxVars, cfgVars, tableVars, time, sim_time_start, wall, sensor,
                    ctrl, viewer, action, episode_length_buf, gait_phase,
                    obs_history, obs, sim_update, range_next, infer_count,
                    listener, command_vel, keyVars >>

\* line 228 counting physics sub-steps instead of macro-steps
IncrEpisodeBySubSteps ==
    /\ pc = "incr"
    /\ episode_length_buf' = episode_length_buf + decimation
    /\ pc' = "gait"
    /\ UNCHANGED << auxVars, cfgVars, tableVars, time, sim_time_start, wall, sensor,
                    ctrl, viewer, action, gait_phase, obs_history, obs,
                    sim_update, range_next, infer_count, listener,
                    command_vel, keyVars >>

\* line 228
IncrEpisode ==
    /\ pc = "incr"
    /\ episode_length_buf' = episode_length_buf + 1
    /\ pc' = "gait"
    /\ UNCHANGED << auxVars, cfgVars, tableVars, time, sim_time_start, wall, sensor,
                    ctrl, viewer, action, gait_phase, obs_history, obs,
                    sim_update, range_next, infer_count, listener,
                    command_vel, keyVars >>

\* line 229 with calculate_gait_para, lines 253-259
CalculateGaitPara ==
    /\ pc = "gait"
    /\ gait_phase' = << GaitPhaseOf(episode_length_buf, task, 1),
                        GaitPhaseOf(episode_length_buf, task, 2) >>
    /\ gait_calls' = gait_calls + 1
    /\ pc' = "loop"
    /\ UNCHANGED << kerr, quat_order, quat, obs_log, cfgVars, tableVars, time, sim_time_start, wall, sensor,
                    ctrl, viewer, action, episode_length_buf, obs_history,
                    obs, sim_update, range_next, infer_count, listener,
                    command_vel, keyVars >>

\* line 231
StopListener ==
    /\ pc = "stop"
    /\ listener' = "stopped"
    /\ pc' = "close"
    /\ UNCHANGED << auxVars, cfgVars, tableVars, time, sim_time_start, wall, sensor,
                    ctrl, viewer, action, episode_length_buf, gait_phase,
                    obs_history, obs, sim_update, range_next, infer_count,
                    command_vel, keyVars >>

\* line 232
CloseViewer ==
    /\ pc = "close"
    /\ viewer' = "closed"
    /\ pc' = "done"
    /\ UNCHANGED << auxVars, cfgVars, tableVars, time, sim_time_start, wall, sensor,
                    ctrl, action, episode_length_buf, gait_phase, obs_history,
                    obs, sim_update, range_next, infer_count, listener,
                    command_vel, keyVars >>

LoopNext ==
    \/ RunStart
    \/ LoopCheck
    \/ Pace
    \/ GetObs
    \/ Infer
    \/ ClipAction
    \/ ForNext
    \/ SetCtrl
    \/ MjStep
    \/ Render
    \/ IncrEpisode
    \/ CalculateGaitPara
    \/ StopListener
    \/ CloseViewer

\* ------------------------------------------------------------------------
\* The keyboard listener thread: on_press and adjust_command_vel
\* ------------------------------------------------------------------------
\* key.char exists (special keys are Key members without that attribute)
HasChar(k) == k # "shift"

\* an except clause that catches nothing
CatchesNothing(exc) == FALSE

\* the except clause of lines 291-292
Catches(exc) == exc = "AttributeError"

\* the exception the comparisons of lines 279-289 raise for key k
CharError(k) == IF HasChar(k) THEN "none" ELSE "AttributeError"

\* lines 277-292: the listener delivers key event k; on_press compares
\* key.char and calls adjust_command_vel, or returns
OnPress(k) ==
    /\ listener = "running"
    /\ kpc = "idle"
    /\ kerr = "none"
    /\ key' = k
    /\ n_events' = n_events + 1
    /\ cv_before' = command_vel
    /\ IF HasChar(k) /\ k \in RecognizedKeys
       THEN /\ kidx' = KeyIdx(k)
            /\ kinc' = KeyIncrement(k)
            /\ kpc' = "add"
            /\ kerr' = kerr
       ELSE /\ kpc' = "idle"
            /\ kerr' = IF CharError(k) = "none" \/ Catches(CharError(k))
                       THEN kerr ELSE CharError(k)
            /\ UNCHANGED << kidx, kinc >>
    /\ UNCHANGED << quat_order, quat, obs_log, gait_calls, cfgVars, tableVars,
                    loopVars, listener, command_vel >>

\* line 269: self.command_vel[idx] += increment
AdjustAdd ==
    /\ kpc = "add"
    /\ command_vel' = [command_vel EXCEPT ![kidx + 1] = @ + kinc]
    /\ kpc' = "clip"
    /\ UNCHANGED << auxVars, cfgVars, tableVars, loopVars, listener, key, kidx, kinc,
                    n_events, cv_before >>

\* line 270 with the lower bound of the clip forgotten
ClipVelUpperOnly(x) == Min(x, Scale)

\* np.clip(x, -1.0, 1.0) of line 270
ClipVel(x) == Clip(x, 0 - Scale, Scale)

\* line 270: self.command_vel[idx] = np.clip(self.command_vel[idx], -1, 1)
AdjustClip ==
    /\ kpc = "clip"
    /\ command_vel' = [command_vel EXCEPT ![kidx + 1] = ClipVel(@)]
    /\ kpc' = "idle"
    /\ kidx' = 0
    /\ kinc' = 0
    /\ UNCHANGED << auxVars, cfgVars, tableVars, loopVars, listener, key, n_events,
                    cv_before >>

\* the environment delivers one of the key events `keys`, at most `limit`
\* events in a run
KeyEvent(keys, limit) ==
    /\ n_events < limit
    /\ \E k \in keys : OnPress(k)

\* a direct call adjust_command_vel(idx, increment), lines 261-268
AdjustCall(idx, increment) ==
    /\ kpc = "idle"
    /\ kidx' = idx
    /\ kinc' = increment
    /\ kpc' = "add"
    /\ UNCHANGED << auxVars, cfgVars, tableVars, loopVars, listener, command_vel, key,
                    n_events, cv_before >>

\* increments tried by direct calls (fixed point): the key step, a step
\* that is no multiple of it, and steps larger than the whole range
Increments ==
    {20, 0 - 20, 70, 0 - 70, MaxIncrement, 0 - MaxIncrement}

\* ------------------------------------------------------------------------
\* Specifications
\* ------------------------------------------------------------------------
\* the control loop with the keyboard listener interleaved
Init == InitWith(Tasks, {MaxShortDuration}, {"feedback"}, {0})

KeyAny == KeyEvent(AllKeys, MaxLoopPresses)

Next ==
    \/ LoopNext
    \/ KeyAny
    \/ AdjustAdd
    \/ AdjustClip

Spec == Init /\ [][Next]_vars

\* the control loop alone (the listener receives no event), long runs
InitLoop == InitWith(Tasks, Durations(MaxDuration), PolicyKinds, Frames)

SpecLoop == InitLoop /\ [][LoopNext]_vars

\* the listener alone: the main thread starts it and is not scheduled again
InitKeys == InitWith({"walk"}, {MaxShortDuration}, {"zeros"}, {0})

KeyMany == KeyEvent(AllKeys, MaxPresses)

NextKeys ==
    \/ RunStart
    \/ KeyMany
    \/ AdjustAdd
    \/ AdjustClip

SpecKeys == InitKeys /\ [][NextKeys]_vars

\* the control loop while the operator presses only the forward key
KeyForward == KeyEvent({"8"}, MaxForwardPresses)

NextForward ==
    \/ LoopNext
    \/ KeyForward
    \/ AdjustAdd
    \/ AdjustClip

SpecForward == InitKeys /\ [][NextForward]_vars

\* the same, with the main thread scheduled again and again: run() is the
\* process's main thread and none of its steps waits for the listener
SpecForwardFair == SpecForward /\ WF_vars(LoopNext)

\* wall-clock time passes while run() executes (time.time() grows)
WallTick ==
    /\ pc \notin {"start", "done"}
    /\ wall < MaxWall
    /\ wall' = wall + dt
    /\ UNCHANGED << auxVars, cfgVars, tableVars, pc, time, sim_time_start,
                    sensor, ctrl, viewer, action, episode_length_buf,
                    gait_phase, obs_history, obs, sim_update, range_next,
                    infer_count, listener, command_vel, keyVars >>

\* the control loop on a machine of any speed: between any two steps of
\* run() any amount of wall-clock time may pass
InitPace == InitWith({"walk"}, Durations(MaxPaceDuration), {"zeros"}, {0})

NextPace ==
    \/ LoopNext
    \/ WallTick

SpecPace == InitPace /\ [][NextPace]_vars

\* the control loop against an engine of either quaternion convention
InitQuat ==
    InitBase({"walk"}, {MaxShortDuration}, {"zeros"}, Frames, QuatOrders)

SpecQuat == InitQuat /\ [][LoopNext]_vars

\* adjust_command_vel called directly with arbitrary arguments
AdjustAny == \E idx \in 0..2 : \E inc \in Increments : AdjustCall(idx, inc)

NextAdjust ==
    \/ AdjustAny
    \/ AdjustAdd
    \/ AdjustClip

SpecAdjust == InitKeys /\ [][NextAdjust]_vars

\* ------------------------------------------------------------------------
\* Properties
\* ------------------------------------------------------------------------
\* positions of run() at which get_obs of the current macro-step has run
AfterGetObs == {"infer", "clip", "for", "ctrl", "step", "render", "incr", "gait"}

\* C1: under every interleaving of adjust_command_vel with the loop's read
\* of command_vel, the command-velocity components copied into the
\* observation (obs[9:12]) lie within [-1,1].
C1_ObsCommandWithinBounds ==
    \A i \in 10..12 : obs[i] >= 0 - Scale /\ obs[i] <= Scale

\* C2: starting from [0,0,0], after any sequence of completed
\* adjust_command_vel(idx, increment) calls, every component of command_vel
\* is within [-1,1].
C2_CompletedCallsWithinBounds ==
    kpc = "idle" =>
        \A i \in 1..3 : command_vel[i] >= 0 - Scale /\ command_vel[i] <= Scale

\* C2 witness: calls have completed that left components on both ends of
\* the range and one inside it, off the grid of the key step
C2_Witness ==
    /\ kpc = "idle"
    /\ command_vel = << Scale, 0 - Scale, 30 >>

\* the two tables are permutations of 0..19 and inverse to each other
TablesInverse ==
    /\ Len(mujoco_to_isaac_idx) = 20
    /\ Len(isaac_to_mujoco_idx) = 20
    /\ \A i \in 0..19 :
          /\ Cardinality({j \in 1..20 : mujoco_to_isaac_idx[j] = i}) = 1
          /\ Cardinality({j \in 1..20 : isaac_to_mujoco_idx[j] = i}) = 1
          /\ isaac_to_mujoco_idx[mujoco_to_isaac_idx[i + 1] + 1] = i
          /\ mujoco_to_isaac_idx[isaac_to_mujoco_idx[i + 1] + 1] = i

\* C3: mujoco_to_isaac_idx and isaac_to_mujoco_idx are mutual inverses, each
\* of length 20 holding every index 0..19 exactly once, and no operation of
\* the run modifies either table.
C3_TablesInverseAndFixed ==
    /\ []TablesInverse
    /\ [][mujoco_to_isaac_idx' = mujoco_to_isaac_idx
          /\ isaac_to_mujoco_idx' = isaac_to_mujoco_idx]_vars

\* C3 witness: the run has ended after macro-steps and key events
C3_Witness ==
    /\ pc = "done"
    /\ episode_length_buf >= 2
    /\ n_events >= 1
    /\ TablesInverse

\* number of physics sub-steps of the current macro-step already executed
SubStepsDone ==
    IF pc = "for" THEN range_next
    ELSE IF pc \in {"ctrl", "step"} THEN range_next - 1
    ELSE IF pc \in {"render", "incr"} THEN decimation
    ELSE 0

\* whether the policy has been invoked in the macro-step in progress
InferredThisStep == pc \in {"clip", "for", "ctrl", "step", "render", "incr"}

\* C4: in every macro-step the policy is invoked exactly once and followed
\* by exactly `decimation` physics sub-steps before the next inference; the
\* target written before each sub-step is position_control() of the
\* macro-step's clamped action, which does not change between the sub-steps.
C4_DecimationContract ==
    /\ [](/\ infer_count = episode_length_buf + (IF InferredThisStep THEN 1 ELSE 0)
          /\ time = dt * (decimation * episode_length_buf + SubStepsDone)
          /\ pc = "infer" => time = dt * decimation * infer_count
          /\ pc = "step" => ctrl = position_control(action, isaac_to_mujoco_idx)
          /\ pc \in {"for", "ctrl", "step"} =>
                action = ClipVec(action, 0 - clip_actions, clip_actions))
    /\ [][(pc \in {"for", "ctrl", "step"}) => (action' = action)]_vars

\* C4 witness: the last sub-step of a later macro-step is about to run with
\* a non-zero target offset
C4_Witness ==
    /\ pc = "step"
    /\ sim_update = decimation - 1
    /\ episode_length_buf >= 1
    /\ ctrl # default_dof_pos
    /\ ctrl = position_control(action, isaac_to_mujoco_idx)

\* C5: after any number of macro-steps obs_history has exactly 10 * 78 = 780
\* elements, and once a macro-step has assembled an observation its last 78
\* elements equal that observation clamped to the observation bound.
C5_HistoryShape ==
    /\ Len(obs_history) = actor_obs_history_length * num_obs_per_step
    /\ Len(obs_history) = 780
    /\ (episode_length_buf >= 1 \/ pc \in AfterGetObs) =>
          SubSeq(obs_history, 703, 780)
              = [i \in 1..78 |-> Clip(obs[i], 0 - clip_observations, clip_observations)]

\* C5 witness: a macro-step has completed whose observation had an element
\* beyond the observation bound
C5_Witness ==
    /\ pc = "loop"
    /\ episode_length_buf >= 1
    /\ \E i \in 1..78 : obs[i] > clip_observations
    /\ \E i \in 1..78 : obs_history[702 + i] # obs[i]

\* C6: the gait phase of each side is always in [0,1).
C6_PhaseInUnitInterval ==
    \A side \in 1..2 : gait_phase[side] >= 0 /\ gait_phase[side] < PhaseDen

\* C6 witness: a phase has wrapped around (it is below its offset)
C6_Witness ==
    /\ episode_length_buf >= 1
    /\ pc = "loop"
    /\ \E side \in 1..2 : gait_phase[side] < ToPhase(GaitPhaseOffset(task)[side])

\* p / PhaseDen = frac(k * macro_dt / cycle + offset / Scale), stated without
\* division: p/PhaseDen + n = k*macro_dt/cycle + offset/Scale for a whole n
IsFracPhase(p, k, macro_dt, cycle, offset) ==
    /\ p >= 0
    /\ p < PhaseDen
    /\ \E n \in 0..(k + 1) :
          (p + n * PhaseDen) * cycle * Scale
              = PhaseDen * (k * macro_dt * Scale + offset * cycle)

\* C7: after k >= 1 completed macro-steps gait_phase[side] equals
\* frac(k * macro_dt / cycle_length + offset[side]) with macro_dt =
\* decimation * dt; with macro_dt 0.02, cycle 0.85 and offsets [0.38, 0.88]
\* the phase after one macro-step is [frac(0.02/0.85+0.38), frac(0.02/0.85+0.88)].
C7_PhaseFormula ==
    (pc = "loop" /\ time >= decimation * dt) =>
        LET k == time \div (decimation * dt)
        IN  /\ \A side \in 1..2 :
                  IsFracPhase(gait_phase[side], k, decimation * dt,
                              GaitCycle(task), GaitPhaseOffset(task)[side])
            /\ (task = "walk" /\ k = 1) => gait_phase = << 686, 1536 >>

\* C7 witness: several macro-steps of the walk preset have completed and the
\* right phase has wrapped
C7_Witness ==
    /\ pc = "loop"
    /\ task = "walk"
    /\ time = 6 * decimation * dt
    /\ gait_phase = << 886, 36 >>

\* C8: with a policy that always returns zeros, every actuator target
\* handed to a physics sub-step equals default_dof_pos, in engine order.
C8_ZeroActionGivesDefaultPose ==
    (policy = "zeros" /\ pc = "step") => ctrl = default_dof_pos

\* C8 witness: a sub-step of a later macro-step under the zero policy
C8_Witness ==
    /\ policy = "zeros"
    /\ pc = "step"
    /\ episode_length_buf >= 1
    /\ ctrl = default_dof_pos

\* C9: from [0,0,0], n presses of '8' give command_vel[0] = min(1.0, n*0.2)
\* (five presses give 1.0, later presses leave it there); lateral and yaw
\* stay 0.
C9_ForwardPresses ==
    kpc = "idle" =>
        /\ command_vel[1] = Min(Scale, n_events * 20)
        /\ (n_events >= 5 => command_vel[1] = 100)
        /\ command_vel[2] = 0
        /\ command_vel[3] = 0

\* C9 witness: the sixth press has completed
C9_Witness ==
    /\ kpc = "idle"
    /\ n_events = 6
    /\ key = "8"
    /\ command_vel = << 100, 0, 0 >>

\* the axis (1-based) and signed increment the claim gives for each key
C10_Table ==
    [k \in RecognizedKeys |->
        IF k = "8" THEN << 1, 20 >>
        ELSE IF k = "2" THEN << 1, 0 - 20 >>
        ELSE IF k = "6" THEN << 2, 20 >>
        ELSE IF k = "4" THEN << 2, 0 - 20 >>
        ELSE IF k = "7" THEN << 3, 0 - 20 >>
        ELSE << 3, 20 >>]

C11_UnrecognizedIgnored ==
    /\ [](kerr = "none")
    /\ []((kpc = "idle" /\ key \in {"5", "shift"}) => command_vel = cv_before)
    /\ [][(n_events' = n_events + 1
           /\ key' \notin {"8", "2", "4", "6", "7", "9"})
          => (/\ command_vel' = command_vel
              /\ loopVars' = loopVars
              /\ listener' = listener
              /\ kpc' = "idle")]_vars

\* C11 witness: a special key has been handled in the middle of a macro-step
\* after a recognized key had changed the command
C11_Witness ==
    /\ key = "shift"
    /\ kpc = "idle"
    /\ n_events = 2
    /\ command_vel = << 20, 0, 0 >>
    /\ cv_before = command_vel
    /\ pc = "infer"

\* C12: given that every physics sub-step advances simulated time by dt > 0
\* and the collaborators return, run() terminates: the loop is left once
\* simulated time >= sim_duration, and on that exit the listener is stopped
\* and then the viewer is closed.
C12_RunTerminates ==
    /\ <>(pc = "done")
    /\ [](pc \in {"stop", "close", "done"} => time >= sim_duration)
    /\ [](pc = "stop" => (listener = "running" /\ viewer = "open"))
    /\ [](pc = "close" => (listener = "stopped" /\ viewer = "open"))
    /\ [](pc = "done" => (listener = "stopped" /\ viewer = "closed"))

\* C12 witness: run() has returned after macro-steps during which keys were
\* pressed
C12_Witness ==
    /\ pc = "done"
    /\ time >= sim_duration
    /\ episode_length_buf = 2
    /\ n_events >= 1
    /\ command_vel[1] > 0
    /\ listener = "stopped"
    /\ viewer = "closed"

\* positions of run() inside the while loop (condition and body)
InLoop ==
    {"loop", "pace", "get_obs", "infer", "clip", "for", "ctrl", "step",
     "render", "incr", "gait"}

\* C13: the listener is started before the first macro-step and is stopped
\* only after the terminal condition (simulated time >= sim_duration) has
\* been reached, so key events are accepted during every macro-step.
C13_ListenerLifetime ==
    /\ pc \in InLoop => listener = "running"
    /\ listener = "none" => (pc = "start" /\ infer_count = 0 /\ time = 0)
    /\ listener = "stopped" =>
          (time >= sim_duration /\ pc \in {"close", "done"})

\* C13 witness: in the last macro-step, with simulated time still below the
\* duration, the running listener is in the middle of handling a key
C13_Witness ==
    /\ pc = "ctrl"
    /\ episode_length_buf = 1
    /\ time < sim_duration
    /\ listener = "running"
    /\ kpc = "clip"
    /\ n_events = 2

\* C14: when the observation is assembled (after the pacing step) elapsed
\* simulated time is not greater than elapsed wall-clock time, given that
\* sleep(d) suspends for at least d; when the simulation is behind real time
\* the pacing step does not sleep, and every iteration still executes
\* exactly one macro-step.
C14_RealTimePacing ==
    /\ [](pc = "get_obs" => time - sim_time_start <= wall)
    /\ [](time = dt * (decimation * episode_length_buf + SubStepsDone))
    /\ [][(pc = "pace" /\ pc' = "get_obs" /\ time - sim_time_start <= wall)
          => (wall' = wall /\ time' = time
              /\ episode_length_buf' = episode_length_buf)]_vars

\* C14 witness: the third observation is about to be assembled while the
\* simulation is two macro-steps behind real time
C14_Witness ==
    /\ pc = "get_obs"
    /\ episode_length_buf = 2
    /\ time = 2 * decimation * dt
    /\ wall >= time - sim_time_start + 2 * decimation * dt

\* the quaternion get_obs handed to quat_rotate_inverse is the orientation
\* of the sensor frame just read, in (x, y, z, w) order
HandedScalarLast ==
    LET q == SensorQuat(sensor)
    IN  /\ quat[4] = q.w
        /\ SubSeq(quat, 1, 3) = << q.x, q.y, q.z >>

\* C15 (as claimed): given that the engine delivers the orientation in
\* scalar-last order (x,y,z,w), the quaternion handed to quat_rotate_inverse
\* is scalar-last: its last element is the sensor's w, its first three are
\* the sensor's x, y, z.
C15_ScalarLastDelivered ==
    (quat_order = "xyzw" /\ pc = "infer") => HandedScalarLast

\* C15 (amended): given that the engine delivers the orientation in
\* scalar-first order (w,x,y,z), the quaternion handed to quat_rotate_inverse
\* is scalar-last: its last element is the sensor's w, its first three are
\* the sensor's x, y, z.
C15_ScalarFirstDelivered ==
    (quat_order = "wxyz" /\ pc = "infer") => HandedScalarLast

\* C15 witness: a scalar-first reading of a tilted body has been reordered
C15_Witness ==
    /\ quat_order = "wxyz"
    /\ pc = "infer"
    /\ sensor = 1
    /\ quat = << 60, 0, 0, 80 >>
    /\ SubSeq(obs, 7, 9) = << 0, -96, -28 >>

\* a step of the keyboard handler (on_press / adjust_command_vel)
ListenerStep == kpc' # kpc \/ n_events' # n_events

\* a step of run()
LoopStep == pc' # pc

\* C16: command_vel is the only state shared between the two execution
\* contexts: a step of the keyboard handler changes nothing of the loop's
\* state (obs_history, action, gait_phase, episode_length_buf, obs, ctrl,
\* the clocks, the tables), a step of the control loop never changes
\* command_vel, and the observation the loop assembles carries the
\* command_vel it read.
C16_OnlyCommandVelShared ==
    /\ [][ListenerStep => UNCHANGED << obs_history, action, gait_phase,
                                       episode_length_buf, obs, ctrl, time,
                                       sensor, sim_update, range_next,
                                       infer_count, pc, tableVars, cfgVars,
                                       obs_log, gait_calls >>]_vars
    /\ [][LoopStep => (command_vel' = command_vel /\ UNCHANGED keyVars)]_vars
    /\ [][(pc = "get_obs" /\ pc' = "infer")
          => SubSeq(obs', 10, 12) = command_vel]_vars

\* C16 witness: the handler has changed command_vel while the loop ran, and
\* the loop has read the changed value into an observation
C16_Witness ==
    /\ n_events >= 1
    /\ kpc = "idle"
    /\ command_vel = << 20, 0, -20 >>
    /\ pc = "infer"
    /\ episode_length_buf >= 1
    /\ SubSeq(obs, 10, 12) = command_vel
    /\ action # Zeros(num_action)

\* C17: at every macro-step, the first one (episode_length_buf = 0)
\* included, the gait phase from which get_obs computed the sine/cosine
\* features equals frac(episode_length_buf * macro_dt / cycle + offset[side]);
\* hence the right and left phases differ by (offset_r - offset_l) mod 1.
C17_PhaseAtEveryMacroStep ==
    (pc = "infer") =>
        /\ \A side \in 1..2 :
              IsFracPhase(gait_phase[side], episode_length_buf,
                          decimation * dt, GaitCycle(task),
                          GaitPhaseOffset(task)[side])
        /\ (gait_phase[2] - gait_phase[1]) % PhaseDen
              = (ToPhase(GaitPhaseOffset(task)[2])
                   - ToPhase(GaitPhaseOffset(task)[1])) % PhaseDen

\* the j-th (0-based) block of num_obs_per_step elements of a history
Block(h, j) == SubSeq(h, j * num_obs_per_step + 1, (j + 1) * num_obs_per_step)

\* C18: obs_history is an oldest-first sliding window: after k macro-steps
\* (k observations assembled) its j-th block, j in 0..H-1, is the clamped
\* observation of macro-step k-H+1+j when that index is >= 1 and all zeros
\* otherwise; each update drops the oldest block, moves every other block
\* one slot towards the front in order, and puts the new observation last.
C18_SlidingWindow ==
    /\ [](\A j \in 0..(actor_obs_history_length - 1) :
             LET i == Len(obs_log) - actor_obs_history_length + 1 + j
             IN  Block(obs_history, j)
                   = IF i >= 1 THEN obs_log[i] ELSE Zeros(num_obs_per_step))
    /\ [](pc = "loop" => Len(obs_log) = episode_length_buf)
    /\ [][(pc = "get_obs" /\ pc' = "infer") =>
            /\ \A j \in 0..(actor_obs_history_length - 2) :
                  Block(obs_history', j) = Block(obs_history, j + 1)
            /\ Block(obs_history', actor_obs_history_length - 1)
                  = ClipVec(obs', 0 - clip_observations, clip_observations)
            /\ Len(obs_log') = Len(obs_log) + 1]_vars

\* C18 witness: more observations than the window holds have been pushed,
\* so the first ones have been dropped and the window is full of distinct
\* observations
C18_Witness ==
    /\ pc = "infer"
    /\ Len(obs_log) >= actor_obs_history_length + 1
    /\ Block(obs_history, 0) = obs_log[Len(obs_log) - actor_obs_history_length + 1]
    /\ Block(obs_history, 0) # obs_log[1]
    /\ Block(obs_history, 0) # Block(obs_history, 1)
    /\ Block(obs_history, 0) # Block(obs_history, actor_obs_history_length - 1)
    /\ Block(obs_history, actor_obs_history_length - 1) # obs

\* the action that inference on history h yields after line 221: the first
\* num_action policy outputs, each clamped to [-clip_actions, clip_actions]
ClampedPolicyAction(h) ==
    ClipVec(SubSeq(Policy(policy, h), 1, num_action),
            0 - clip_actions, clip_actions)

\* C19: the previous-action segment obs[52:72] assembled at macro-step k is
\* the clamped action produced by the inference of macro-step k-1 (run on
\* the history of that macro-step), and all zeros at the first macro-step;
\* the action of macro-step k is the first 20 policy outputs clamped to
\* [-clip_actions, clip_actions], and it enters no observation before the
\* get_obs of macro-step k+1.
C19_PreviousAction ==
    /\ [][(pc = "get_obs" /\ pc' = "infer") =>
            /\ SubSeq(obs', 53, 72)
                 = IF infer_count = 0 THEN Zeros(num_action)
                   ELSE ClampedPolicyAction(obs_history)
            /\ SubSeq(obs', 53, 72) = action]_vars
    /\ [](pc = "for" => action = ClampedPolicyAction(obs_history))
    /\ [][(pc \in {"infer", "clip"}) => UNCHANGED << obs, obs_history >>]_vars
    /\ [][(obs' # obs \/ obs_history' # obs_history) => pc = "get_obs"]_vars

\* C19 witness: an observation of a later macro-step carries the clamped
\* action of the inference before it, whose raw outputs exceeded the clamp
C19_Witness ==
    /\ pc = "infer"
    /\ policy = "big"
    /\ infer_count >= 2
    /\ Policy(policy, obs_history)[1] > clip_actions
    /\ SubSeq(obs, 53, 54) = << clip_actions, 0 - clip_actions >>
    /\ SubSeq(obs, 53, 72) = action

\* number of physics sub-steps executed so far: mj_step advances data.time
\* by dt from 0
SubStepsSoFar == time \div dt

====
